---------------------------- MODULE Spec2Model ----------------------------
(***************************************************************************)
(* Model of the workflow graph engine (app/engine/graph_engine.py) with    *)
(* its tool registry (app/engine/tools.py).                                *)
(*                                                                         *)
(* State documents are functions from keys to values.  Python's None is    *)
(* the string NoneVal, which is no node id, tool name or status.  Every    *)
(* dict the engine holds carries, next to its content, the identity of the *)
(* Python object (a "ref"), so that a deepcopy is a new identity and an    *)
(* assignment is an alias.                                                 *)
(*                                                                         *)
(* graphs and runs are the two stores of the engine, calls the locals of   *)
(* the invocations of run_graph, and last the call a client made most      *)
(* recently with its outcome; a call of get_run_state is followed there    *)
(* through its reads of the record.                                        *)
(***************************************************************************)
EXTENDS Integers, Sequences, FiniteSets, TLC

VARIABLES graphs, runs, calls, last

vars == <<graphs, runs, calls, last>>

(***************************************************************************)
(* Bounds of the model.                                                    *)
(***************************************************************************)
MaxSteps == 3
MaxRuns == 1
MaxGraphs == 1

NoneVal == "None"
NextKey == "_next_node"
EmptyDoc == << >>

(***************************************************************************)
(* Documents.                                                              *)
(***************************************************************************)
Has(doc, k) == k \in DOMAIN doc

Get(doc, k, default) == IF k \in DOMAIN doc THEN doc[k] ELSE default

Put(doc, k, v) == [x \in DOMAIN doc \cup {k} |-> IF x = k THEN v ELSE doc[x]]

Pop(doc, k) == [x \in DOMAIN doc \ {k} |-> doc[x]]

(***************************************************************************)
(* Tools.  A tool is a callable on a copy of the working state; its        *)
(* outcome is the document it returns ("doc"), the no-op sentinel None     *)
(* ("none", arg is what it made of its argument) or an exception           *)
(* ("raise"), which is an instance of Exception or, like SystemExit,       *)
(* KeyboardInterrupt and GeneratorExit, of BaseException only.  The        *)
(* callables below are the ones registered for the abstract graphs;        *)
(* "ghost" is a tool name that is never registered.                        *)
(***************************************************************************)
Returned(doc) == [ret |-> "doc", doc |-> doc, msg |-> ""]

ReturnedNone(arg) == [ret |-> "none", doc |-> arg, msg |-> ""]

Raised(msg) ==
    [ret |-> "raise", doc |-> EmptyDoc, msg |-> msg, is_exception |-> TRUE]

RaisedBase(msg) ==
    [ret |-> "raise", doc |-> EmptyDoc, msg |-> msg, is_exception |-> FALSE]

inc_tool(state) == Returned(Put(state, "n", Get(state, "n", 0) + 1))

noop_tool(state) == ReturnedNone(Put(state, "n", Get(state, "n", 0) + 1))

stop_tool(state) == Returned(Put(state, NextKey, NoneVal))

goto_tool(target, state) == Returned(Put(state, NextKey, target))

boom_tool(state) == Raised("boom")

\* raise SystemExit("exit").
exit_tool(state) == RaisedBase("exit")

TestTools == {"inc", "noop", "stop", "goto_A", "goto_Z", "boom", "exit"}

(***************************************************************************)
(* The tools of the code review graph.  The source code under review is    *)
(* the sequence of its lines (code.splitlines()), a line the sequence of   *)
(* its characters; a function name is a sequence of characters.  A dict    *)
(* that is iterated (complexity) is the sequence of its items in insertion *)
(* order.  A formatted suggestion is the tuple of its kind and of the      *)
(* values formatted into it.  A score or threshold is in thousandths       *)
(* (0.8 is 800); the stored score is round(quality_score, 3), the          *)
(* comparison with the threshold is the one of the floats.                 *)
(***************************************************************************)
\* str.strip() removes the characters of str.isspace(): the ASCII ones, the
\* separators U+001C to U+001F, U+0085, U+00A0 and U+1680.  (Python strips
\* U+2000 to U+200A, U+2028, U+2029, U+202F, U+205F and U+3000 as well; a
\* string of this module cannot hold them.)
IsSpace(ch) ==
    ch \in {" ", "\t", "\n", "\r", "\f", "", "", "", "", "",
            "", " ", " "}

RECURSIVE LStrip(_)
LStrip(s) == IF s # << >> /\ IsSpace(Head(s)) THEN LStrip(Tail(s)) ELSE s

RECURSIVE RStrip(_)
RStrip(s) ==
    IF s # << >> /\ IsSpace(s[Len(s)]) THEN RStrip(SubSeq(s, 1, Len(s) - 1)) ELSE s

Strip(s) == RStrip(LStrip(s))

StartsWith(s, prefix) ==
    Len(s) >= Len(prefix) /\ SubSeq(s, 1, Len(prefix)) = prefix

Contains(s, sub) ==
    \E i \in 1..(Len(s) - Len(sub) + 1) : SubSeq(s, i, i + Len(sub) - 1) = sub

\* s.index(ch), counted from 1.
IndexOf(s, ch) ==
    CHOOSE i \in 1..Len(s) : s[i] = ch /\ \A j \in 1..(i - 1) : s[j] # ch

Count(s, ch) == Cardinality({i \in 1..Len(s) : s[i] = ch})

\* "sub in code" for a sub without a line break.
CodeContains(code, sub) == \E i \in 1..Len(code) : Contains(code[i], sub)

DefPrefix == <<"d", "e", "f", " ">>

\* extract_functions_tool, lines 50-56.
RECURSIVE ExtractFunctions(_)
ExtractFunctions(lines) ==
    IF lines = << >> THEN << >>
    ELSE LET stripped == Strip(Head(lines))
             name == Strip(SubSeq(stripped, 5, IndexOf(stripped, "(") - 1))
         IN IF /\ StartsWith(stripped, DefPrefix)
               /\ Contains(stripped, <<"(">>)
               /\ name # << >>
            THEN <<name>> \o ExtractFunctions(Tail(lines))
            ELSE ExtractFunctions(Tail(lines))

extract_functions_tool(state) ==
    LET functions == ExtractFunctions(Get(state, "code", << >>))
        metadata == Get(state, "metadata", EmptyDoc)
    IN Returned(Put(Put(state, "functions", functions), "metadata",
                    Put(metadata, "num_functions", Len(functions))))

\* check_complexity_tool, lines 71-73: one item per function name.
RECURSIVE Complexities(_, _)
Complexities(functions, seen) ==
    IF functions = << >> THEN << >>
    ELSE LET fn_name == Head(functions)
         IN IF fn_name \in seen
            THEN Complexities(Tail(functions), seen)
            ELSE <<<<fn_name, Len(fn_name) + Count(fn_name, "_")>>>>
                    \o Complexities(Tail(functions), seen \cup {fn_name})

check_complexity_tool(state) ==
    Returned(Put(state, "complexity",
                 Complexities(Get(state, "functions", << >>), {})))

IssueIf(cond, issue) == IF cond THEN <<issue>> ELSE << >>

\* detect_basic_issues_tool, lines 83-95.
detect_basic_issues_tool(state) ==
    LET code == Get(state, "code", << >>)
    IN Returned(Put(state, "issues",
          IssueIf(CodeContains(code, <<"\t">>),
                  "Tabs found; prefer spaces for indentation.")
          \o IssueIf(CodeContains(code, <<"p", "r", "i", "n", "t", "(">>),
                     "Debug prints found; consider using a logger.")
          \o IssueIf(CodeContains(code, <<"T", "O", "D", "O">>),
                     "TODO comments found; make sure they are resolved.")
          \o IssueIf(Len(code) > 200,
                     "File is quite long; consider splitting into modules.")))

ComplexMin == 15

\* The items of the complexity dict with a score above 15.
ComplexItems(complexity) ==
    SelectSeq(complexity, LAMBDA item : item[2] > ComplexMin)

\* suggest_improvements_tool, lines 103-127: the suggestions are appended to
\* the ones already in the state.
suggest_improvements_tool(state) ==
    LET complex == ComplexItems(Get(state, "complexity", << >>))
        issues == Get(state, "issues", << >>)
        functions == Get(state, "functions", << >>)
    IN Returned(Put(state, "suggestions",
          Get(state, "suggestions", << >>)
          \o [i \in 1..Len(complex) |-> <<"complex", complex[i][1], complex[i][2]>>]
          \o [i \in 1..Len(issues) |-> <<"issue", issues[i]>>]
          \o [i \in 1..Len(functions) |-> <<"docstring", functions[i]>>]))

DefaultThreshold == 800

Max(a, b) == IF a >= b THEN a ELSE b

Min(a, b) == IF a <= b THEN a ELSE b

\* round(quality_score, 3), lines 147-156, in thousandths.
QualityScore(state) ==
    LET complex == ComplexItems(Get(state, "complexity", << >>))
        issues == Get(state, "issues", << >>)
    IN Max(0, Min(1000, 1000 - 100 * Len(complex) - 150 * Len(issues)))

\* The numbers n of complex functions and m of issues for which the double
\* 1.0 - 0.1 * n - 0.15 * m of lines 149-154 lies below the double of its decimal
\* value (3 and 1: 0.5499999999999999, below 0.55).  For every other n and m
\* it is that double or lies above it.
RoundedDown ==
    {<<3, 1>>, <<3, 2>>, <<3, 4>>, <<4, 1>>, <<6, 0>>, <<6, 1>>, <<6, 2>>,
     <<7, 0>>, <<7, 1>>, <<8, 0>>, <<8, 1>>, <<9, 0>>}

\* quality_score < threshold, line 160, on the float that was not rounded:
\* for a threshold in thousandths the score lies below it when its decimal
\* value does, or when the two are equal and the float fell below.
BelowThreshold(n, m, threshold) ==
    LET decimal == Max(0, Min(1000, 1000 - 100 * n - 150 * m))
    IN \/ decimal < threshold
       \/ decimal = threshold /\ <<n, m>> \in RoundedDown

\* quality_gate_tool, lines 143-166.
quality_gate_tool(state) ==
    LET complex == ComplexItems(Get(state, "complexity", << >>))
        issues == Get(state, "issues", << >>)
        threshold == Get(state, "threshold", DefaultThreshold)
        quality_score == QualityScore(state)
        metadata == Put(Get(state, "metadata", EmptyDoc), "complex_functions",
                        [i \in 1..Len(complex) |-> complex[i][1]])
        scored == Put(Put(state, "quality_score", quality_score),
                      "metadata", metadata)
    IN Returned(Put(scored, NextKey,
                    IF BelowThreshold(Len(complex), Len(issues), threshold)
                    THEN "suggest_improvements"
                    ELSE NoneVal))

ReviewTools ==
    {"extract_functions", "check_complexity", "detect_basic_issues",
     "suggest_improvements", "quality_gate"}

\* The names registered: register_code_review_tools_and_graph, lines 178-202,
\* and the callables above.
Registered == TestTools \cup ReviewTools

ToolFn(tool_name, state) ==
    CASE tool_name = "inc" -> inc_tool(state)
      [] tool_name = "noop" -> noop_tool(state)
      [] tool_name = "stop" -> stop_tool(state)
      [] tool_name = "goto_A" -> goto_tool("A", state)
      [] tool_name = "goto_Z" -> goto_tool("Z", state)
      [] tool_name = "boom" -> boom_tool(state)
      [] tool_name = "exit" -> exit_tool(state)
      [] tool_name = "extract_functions" -> extract_functions_tool(state)
      [] tool_name = "check_complexity" -> check_complexity_tool(state)
      [] tool_name = "detect_basic_issues" -> detect_basic_issues_tool(state)
      [] tool_name = "suggest_improvements" -> suggest_improvements_tool(state)
      [] tool_name = "quality_gate" -> quality_gate_tool(state)

\* ToolRegistry.get: the callable if registered, KeyError otherwise.
NotRegisteredMsg(name) == "\"Tool '" \o name \o "' is not registered\""

(***************************************************************************)
(* create_graph.                                                           *)
(***************************************************************************)
NodeIdsOf(req) == {req.nodes[i].id : i \in 1..Len(req.nodes)}

\* The node id is stored in place of the tool name.
NodesDictIdAsValue(nodes) == [id \in {nodes[i].id : i \in 1..Len(nodes)} |-> id]

\* {n.id: n.tool_name for n in req.nodes}: a later entry of the list wins.
NodesDict(nodes) ==
    [id \in {nodes[i].id : i \in 1..Len(nodes)} |->
        LET last_i == CHOOSE i \in 1..Len(nodes) :
                         /\ nodes[i].id = id
                         /\ \A j \in (i + 1)..Len(nodes) : nodes[j].id # id
        IN nodes[last_i].tool_name]

StartMsg == "start_node_id must be one of the node IDs"

EdgeSourceMsg(src) == "Edge source '" \o src \o "' is not a valid node id"

EdgeTargetMsg(dst) == "Edge target '" \o dst \o "' is not a valid node id"

\* The edge targets are not checked.
CreateErrorsNoTarget(req) ==
    LET node_ids == NodeIdsOf(req)
    IN IF req.start_node_id \notin node_ids
       THEN {StartMsg}
       ELSE {EdgeSourceMsg(src) : src \in {s \in DOMAIN req.edges : s \notin node_ids}}

\* The start node is not checked.
CreateErrorsNoStart(req) ==
    LET node_ids == NodeIdsOf(req)
    IN {EdgeSourceMsg(src) : src \in {s \in DOMAIN req.edges : s \notin node_ids}}
       \cup {EdgeTargetMsg(req.edges[src]) :
                src \in {s \in DOMAIN req.edges :
                            /\ s \in node_ids
                            /\ req.edges[s] # NoneVal
                            /\ req.edges[s] \notin node_ids}}

\* The messages create_graph can raise for req: the start check comes first;
\* the edges are checked in dict order (any order here), source before target.
CreateErrors(req) ==
    LET node_ids == NodeIdsOf(req)
    IN IF req.start_node_id \notin node_ids
       THEN {StartMsg}
       ELSE {EdgeSourceMsg(src) : src \in {s \in DOMAIN req.edges : s \notin node_ids}}
            \cup {EdgeTargetMsg(req.edges[src]) :
                     src \in {s \in DOMAIN req.edges :
                                 /\ s \in node_ids
                                 /\ req.edges[s] # NoneVal
                                 /\ req.edges[s] \notin node_ids}}

Graph(graph_id, req) ==
    [id |-> graph_id,
     name |-> req.name,
     start_node_id |-> req.start_node_id,
     nodes |-> NodesDict(req.nodes),
     edges |-> req.edges]

\* The id is not fresh: a graph already stored under it is replaced.
CreateGraphOverwrite(req, graph_id) ==
    IF CreateErrors(req) # {}
    THEN /\ \E m \in CreateErrors(req) :
               last' = [op |-> "create_graph", raised |-> "ValueError",
                        msg |-> m, value |-> 0]
         /\ UNCHANGED <<graphs, runs, calls>>
    ELSE /\ graphs' = [g \in DOMAIN graphs \cup {graph_id} |->
                          IF g = graph_id THEN Graph(graph_id, req) ELSE graphs[g]]
         /\ last' = [op |-> "create_graph", raised |-> "", msg |-> "",
                     value |-> graph_id]
         /\ UNCHANGED <<runs, calls>>

\* create_graph, lines 58-85; graph_id is the value uuid4() gives.
CreateGraph(req, graph_id) ==
    IF CreateErrors(req) # {}
    THEN /\ \E m \in CreateErrors(req) :
               last' = [op |-> "create_graph", raised |-> "ValueError",
                        msg |-> m, value |-> 0]
         /\ UNCHANGED <<graphs, runs, calls>>
    ELSE /\ graph_id \notin DOMAIN graphs
         /\ graphs' = [g \in DOMAIN graphs \cup {graph_id} |->
                          IF g = graph_id THEN Graph(graph_id, req) ELSE graphs[g]]
         /\ last' = [op |-> "create_graph", raised |-> "", msg |-> "",
                     value |-> graph_id]
         /\ UNCHANGED <<runs, calls>>

(***************************************************************************)
(* run_graph.                                                              *)
(***************************************************************************)
Ref(kind, run_id, k) == <<kind, run_id, k>>

\* The record is stored with an empty state instead of a copy of the
\* initial state.
RunRecordEmptyState(run_id, graph_id, state, graph) ==
    [id |-> run_id,
     graph_id |-> graph_id,
     state |-> EmptyDoc,
     state_ref |-> Ref("record", run_id, 0),
     current_node_id |-> graph.start_node_id,
     log |-> << >>,
     status |-> "running",
     error |-> NoneVal]

RunRecord(run_id, graph_id, state, graph) ==
    [id |-> run_id,
     graph_id |-> graph_id,
     state |-> state,
     state_ref |-> Ref("record", run_id, 0),
     current_node_id |-> graph.start_node_id,
     log |-> << >>,
     status |-> "running",
     error |-> NoneVal]

\* The run starts from an empty working state instead of a copy of the
\* initial state.
LocalsEmptyState(run_id, graph, initial_state, max_steps) ==
    [pc |-> "loop",
     graph |-> graph,
     initial_state |-> initial_state,
     max_steps |-> max_steps,
     state |-> EmptyDoc,
     state_ref |-> Ref("state", run_id, 0),
     log |-> << >>,
     current_node_id |-> graph.start_node_id,
     next_i |-> 0,
     step_index |-> 0,
     exc |-> "",
     result |-> "pending"]

\* The locals of run_graph after lines 102-118.
Locals(run_id, graph, initial_state, max_steps) ==
    [pc |-> "loop",
     graph |-> graph,
     initial_state |-> initial_state,
     max_steps |-> max_steps,
     state |-> initial_state,
     state_ref |-> Ref("state", run_id, 0),
     log |-> << >>,
     current_node_id |-> graph.start_node_id,
     next_i |-> 0,
     step_index |-> 0,
     exc |-> "",
     result |-> "pending"]

\* The record is stored before the graph id is looked up.
RunGraphRecordFirst(graph_id, initial_state, max_steps, run_id) ==
    /\ run_id \notin DOMAIN runs
    /\ runs' = [r \in DOMAIN runs \cup {run_id} |->
                   IF r = run_id
                   THEN [id |-> run_id, graph_id |-> graph_id,
                         state |-> initial_state,
                         state_ref |-> Ref("record", run_id, 0),
                         current_node_id |-> NoneVal, log |-> << >>,
                         status |-> "running", error |-> NoneVal]
                   ELSE runs[r]]
    /\ IF graph_id \notin DOMAIN graphs
       THEN /\ last' = [op |-> "run_graph", raised |-> "KeyError",
                        msg |-> ToString(graph_id), value |-> 0]
            /\ calls' = [r \in DOMAIN calls \cup {run_id} |->
                            IF r = run_id
                            THEN [Locals(run_id, [start_node_id |-> NoneVal,
                                                  nodes |-> << >>, edges |-> << >>],
                                         initial_state, max_steps)
                                     EXCEPT !.pc = "done", !.result = "raised"]
                            ELSE calls[r]]
       ELSE /\ calls' = [r \in DOMAIN calls \cup {run_id} |->
                            IF r = run_id
                            THEN Locals(run_id, graphs[graph_id], initial_state,
                                        max_steps)
                            ELSE calls[r]]
            /\ last' = last
    /\ graphs' = graphs

\* run_graph up to the loop, lines 99-118: KeyError for an unknown graph id,
\* else the record is stored; run_id is the value uuid4() gives.
RunGraph(graph_id, initial_state, max_steps, run_id) ==
    IF graph_id \notin DOMAIN graphs
    THEN /\ last' = [op |-> "run_graph", raised |-> "KeyError",
                     msg |-> ToString(graph_id), value |-> 0]
         /\ UNCHANGED <<graphs, runs, calls>>
    ELSE /\ run_id \notin DOMAIN runs
         /\ runs' = [r \in DOMAIN runs \cup {run_id} |->
                        IF r = run_id
                        THEN RunRecord(run_id, graph_id, initial_state,
                                       graphs[graph_id])
                        ELSE runs[r]]
         /\ calls' = [r \in DOMAIN calls \cup {run_id} |->
                         IF r = run_id
                         THEN Locals(run_id, graphs[graph_id], initial_state,
                                     max_steps)
                         ELSE calls[r]]
         /\ UNCHANGED <<graphs, last>>

(***************************************************************************)
(* One iteration of the loop of run_graph, lines 121-155: everything up to *)
(* the first write to the stored record.  The locals of the invocation     *)
(* run_id are calls[run_id].                                               *)
(***************************************************************************)
ExecutionStep(step_index, node_id, tool_name, input_state, input_ref, output_state, output_ref) ==
    [step_index |-> step_index,
     node_id |-> node_id,
     tool_name |-> tool_name,
     input_state |-> input_state,
     input_ref |-> input_ref,
     output_state |-> output_state,
     output_ref |-> output_ref]

\* Off by one: the loop runs once more.
ExhaustedLate(c) == c.next_i > c.max_steps

\* The default budget of GraphRunRequest is used instead of the caller's.
DefaultMaxSteps == 50

ExhaustedDefault(c) == c.next_i >= DefaultMaxSteps

\* range(max_steps) has no further value.
Exhausted(c) == c.next_i >= c.max_steps

\* Lines 125-126: the exception of resolving the node's tool, "" if none.
ResolveError(c) ==
    IF c.current_node_id \notin DOMAIN c.graph.nodes
    THEN "'" \o c.current_node_id \o "'"
    ELSE IF c.graph.nodes[c.current_node_id] \notin Registered
         THEN NotRegisteredMsg(c.graph.nodes[c.current_node_id])
         ELSE ""

\* Line 129: input_state = deepcopy(state), a new object.
InputRef(run_id, i, state_ref) == Ref("input", run_id, i)

\* The logged output is the working state itself, not a copy of it.
OutputRefAlias(run_id, i, state_ref) == state_ref

\* Line 142: output_state = deepcopy(state), a new object.
OutputRef(run_id, i, state_ref) == Ref("output", run_id, i)

\* Line 130: the tool is called on deepcopy(state).
ToolOutcome(c) == ToolFn(c.graph.nodes[c.current_node_id], c.state)

\* The tool is called on the working state itself, so what the tool did to
\* its argument is kept when it returns None.
StateAfterToolArg(out, state) == out.doc

\* Lines 133-135: None keeps the working state, a document replaces it.
StateAfterTool(out, state) == IF out.ret = "none" THEN state ELSE out.doc

StateRefAfterTool(out, run_id, i, state_ref) ==
    IF out.ret = "none" THEN state_ref ELSE Ref("arg", run_id, i)

\* The static edge, when the node has one, decides; else the control key.
NextNodeIdEdgeFirst(state, graph, current_node_id) ==
    IF current_node_id \in DOMAIN graph.edges
    THEN graph.edges[current_node_id]
    ELSE Get(state, NextKey, NoneVal)

\* Lines 150-153: the control key, when present, decides; else the edge.
NextNodeId(state, graph, current_node_id) ==
    IF Has(state, NextKey)
    THEN state[NextKey]
    ELSE Get(graph.edges, current_node_id, NoneVal)

\* The control key is left in the working state.
StateAfterResolveKeep(state) == state

\* Line 151: state.pop("_next_node") when the key is present.
StateAfterResolve(state) == IF Has(state, NextKey) THEN Pop(state, NextKey) ELSE state

MaxStepsMsg(max_steps) ==
    "Max steps (" \o ToString(max_steps)
        \o ") reached. Your graph likely has an infinite loop."

SetCall(run_id, c) == calls' = [calls EXCEPT ![run_id] = c]

\* Lines 121, 162-167: the loop is exhausted, ValueError.
LoopExhausted(run_id) ==
    LET c == calls[run_id]
    IN /\ c.pc = "loop"
       /\ Exhausted(c)
       /\ SetCall(run_id, [c EXCEPT !.pc = "except",
                                    !.exc = MaxStepsMsg(c.max_steps)])
       /\ UNCHANGED <<graphs, runs, last>>

\* Lines 121-123: the current node is None, break.
LoopBreak(run_id) ==
    LET c == calls[run_id]
    IN /\ c.pc = "loop"
       /\ ~Exhausted(c)
       /\ c.current_node_id = NoneVal
       /\ SetCall(run_id, [c EXCEPT !.pc = "complete",
                                    !.step_index = c.next_i,
                                    !.next_i = c.next_i + 1])
       /\ UNCHANGED <<graphs, runs, last>>

\* Line 170, except Exception: the KeyError of lines 125-126 and a tool's
\* exception that is an instance of Exception enter the handler.
Caught(c) == ResolveError(c) # "" \/ ToolOutcome(c).is_exception

\* Lines 125-130: the tool name or the tool is not found, or the tool raises.
\* An exception the handler does not catch leaves run_graph at once, with
\* the record as it is.
StepRaise(run_id) ==
    LET c == calls[run_id]
    IN /\ c.pc = "loop"
       /\ ~Exhausted(c)
       /\ c.current_node_id # NoneVal
       /\ \/ ResolveError(c) # ""
          \/ ResolveError(c) = "" /\ ToolOutcome(c).ret = "raise"
       /\ SetCall(run_id,
                  [c EXCEPT !.pc = IF Caught(c) THEN "except" ELSE "done",
                            !.result = IF Caught(c) THEN c.result ELSE "raised",
                            !.step_index = c.next_i,
                            !.next_i = c.next_i + 1,
                            !.exc = IF ResolveError(c) # ""
                                    THEN ResolveError(c)
                                    ELSE ToolOutcome(c).msg])
       /\ UNCHANGED <<graphs, runs, last>>

\* Lines 125-155: the tool runs, the step is logged, the next node resolved.
StepOk(run_id) ==
    LET c == calls[run_id]
        i == c.next_i
    IN /\ c.pc = "loop"
       /\ ~Exhausted(c)
       /\ c.current_node_id # NoneVal
       /\ ResolveError(c) = ""
       /\ ToolOutcome(c).ret # "raise"
       /\ LET out == ToolOutcome(c)
              state == StateAfterTool(out, c.state)
              state_ref == StateRefAfterTool(out, run_id, i, c.state_ref)
              step == ExecutionStep(i, c.current_node_id,
                                    c.graph.nodes[c.current_node_id],
                                    c.state, InputRef(run_id, i, c.state_ref),
                                    state, OutputRef(run_id, i, state_ref))
          IN SetCall(run_id,
                     [c EXCEPT !.pc = "write_state",
                               !.step_index = i,
                               !.next_i = i + 1,
                               !.state = StateAfterResolve(state),
                               !.state_ref = state_ref,
                               !.log = Append(c.log, step),
                               !.current_node_id =
                                   NextNodeId(state, c.graph, c.current_node_id)])
       /\ UNCHANGED <<graphs, runs, last>>

(***************************************************************************)
(* The writes to the stored record, one assignment each.                   *)
(***************************************************************************)
\* The state is written to every stored record, not only to the run's own.
WriteStateAll(run_id) ==
    LET c == calls[run_id]
    IN /\ c.pc = "write_state"
       /\ runs' = [r \in DOMAIN runs |->
                      [runs[r] EXCEPT !.state = c.state,
                                      !.state_ref =
                                          Ref("record", r, c.step_index + 1)]]
       /\ SetCall(run_id, [c EXCEPT !.pc = "write_node"])
       /\ UNCHANGED <<graphs, last>>

\* The record gets the state the step started from, not the one it left.
WriteStateStale(run_id) ==
    LET c == calls[run_id]
    IN /\ c.pc = "write_state"
       /\ runs' = [runs EXCEPT ![run_id].state = c.log[Len(c.log)].input_state,
                               ![run_id].state_ref =
                                   Ref("record", run_id, c.step_index + 1)]
       /\ SetCall(run_id, [c EXCEPT !.pc = "write_node"])
       /\ UNCHANGED <<graphs, last>>

\* Line 158: run_record.state = deepcopy(state).
WriteState(run_id) ==
    LET c == calls[run_id]
    IN /\ c.pc = "write_state"
       /\ runs' = [runs EXCEPT ![run_id].state = c.state,
                               ![run_id].state_ref =
                                   Ref("record", run_id, c.step_index + 1)]
       /\ SetCall(run_id, [c EXCEPT !.pc = "write_node"])
       /\ UNCHANGED <<graphs, last>>

\* Line 159: run_record.current_node_id = current_node_id.
WriteNode(run_id) ==
    LET c == calls[run_id]
    IN /\ c.pc = "write_node"
       /\ runs' = [runs EXCEPT ![run_id].current_node_id = c.current_node_id]
       /\ SetCall(run_id, [c EXCEPT !.pc = "write_log"])
       /\ UNCHANGED <<graphs, last>>

\* Only the step just executed is stored.
WriteLogLast(run_id) ==
    LET c == calls[run_id]
    IN /\ c.pc = "write_log"
       /\ runs' = [runs EXCEPT ![run_id].log = <<c.log[Len(c.log)]>>]
       /\ SetCall(run_id, [c EXCEPT !.pc = "loop"])
       /\ UNCHANGED <<graphs, last>>

\* Line 160: run_record.log = log.copy(), a new list of the same steps.
WriteLog(run_id) ==
    LET c == calls[run_id]
    IN /\ c.pc = "write_log"
       /\ runs' = [runs EXCEPT ![run_id].log = c.log]
       /\ SetCall(run_id, [c EXCEPT !.pc = "loop"])
       /\ UNCHANGED <<graphs, last>>

\* Lines 169, 175: status completed, return (run_id, state, log).
Complete(run_id) ==
    LET c == calls[run_id]
    IN /\ c.pc = "complete"
       /\ runs' = [runs EXCEPT ![run_id].status = "completed"]
       /\ SetCall(run_id, [c EXCEPT !.pc = "done", !.result = "returned"])
       /\ UNCHANGED <<graphs, last>>

\* Line 171: status failed.
FailStatus(run_id) ==
    LET c == calls[run_id]
    IN /\ c.pc = "except"
       /\ runs' = [runs EXCEPT ![run_id].status = "failed"]
       /\ SetCall(run_id, [c EXCEPT !.pc = "except_error"])
       /\ UNCHANGED <<graphs, last>>

\* Lines 172-173: error = str(exc), and the exception is raised again.
FailError(run_id) ==
    LET c == calls[run_id]
    IN /\ c.pc = "except_error"
       /\ runs' = [runs EXCEPT ![run_id].error = c.exc]
       /\ SetCall(run_id, [c EXCEPT !.pc = "done", !.result = "raised"])
       /\ UNCHANGED <<graphs, last>>

(***************************************************************************)
(* get_run_state.                                                          *)
(***************************************************************************)
GraphStateResponse(r) ==
    [run_id |-> r.id,
     graph_id |-> r.graph_id,
     status |-> r.status,
     current_node_id |-> r.current_node_id,
     state |-> r.state,
     log |-> r.log,
     error |-> r.error]

\* The attributes of the record that run_graph assigns, in the order in
\* which lines 188-192 evaluate them.  No lock is held: statements of
\* run_graph may execute between any two of the reads.
ReadOrder == <<"status", "current_node_id", "state", "log", "error">>

\* get_run_state, lines 180-187: KeyError for an unknown run id, else the
\* call starts to build its response from the record r, with r.id and
\* r.graph_id, which are never assigned after the record is made; the
\* engine's state does not change.  reads counts the attributes of ReadOrder
\* that are read.
GetRunState(run_id) ==
    /\ last' = IF run_id \notin DOMAIN runs
               THEN [op |-> "get_run_state", raised |-> "KeyError",
                     msg |-> ToString(run_id), value |-> 0]
               ELSE [op |-> "get_run_state", raised |-> "", msg |-> "",
                     value |-> run_id, reads |-> 0,
                     response |->
                         [run_id |-> GraphStateResponse(runs[run_id]).run_id,
                          graph_id |-> GraphStateResponse(runs[run_id]).graph_id]]
    /\ UNCHANGED <<graphs, runs, calls>>

\* A call of get_run_state is building its response.
Reading == last.op = "get_run_state" /\ last.raised = ""

\* Lines 188-192: the call of get_run_state reads the next attribute of the
\* record as it is stored now; with the last one the response is returned.
ReadField ==
    /\ Reading
    /\ last.reads < Len(ReadOrder)
    /\ LET field == ReadOrder[last.reads + 1]
       IN last' = [last EXCEPT
                      !.reads = last.reads + 1,
                      !.response =
                          Put(last.response, field,
                              GraphStateResponse(runs[last.value])[field])]
    /\ UNCHANGED <<graphs, runs, calls>>

\* The call of get_run_state has returned its response.
Responded == Reading /\ last.reads = Len(ReadOrder)

(***************************************************************************)
(* The graphs and runs of the specification Spec.                          *)
(***************************************************************************)
NodeDefinition(id, tool_name) == [id |-> id, tool_name |-> tool_name]

GraphCreateRequest(name, start_node_id, nodes, edges) ==
    [name |-> name, start_node_id |-> start_node_id, nodes |-> nodes,
     edges |-> edges]

ToolNames == Registered \cup {"ghost"}

\* A -> B -> C by static edges, B's tool sets the control key to None.
ABCRequest ==
    GraphCreateRequest("abc", "A",
        <<NodeDefinition("A", "inc"), NodeDefinition("B", "stop"),
          NodeDefinition("C", "inc")>>,
        [A |-> "B", B |-> "C"])

NodeLists ==
    {<<NodeDefinition("A", t)>> : t \in ToolNames}
    \cup {<<NodeDefinition("A", t[1]), NodeDefinition("B", t[2])>> :
             t \in {"inc", "noop"} \X {"inc", "stop"}}

EdgeMaps ==
    {EmptyDoc} \cup {[A |-> x] : x \in {NoneVal, "A", "B"}}

Requests ==
    {GraphCreateRequest("g", s, n, e) :
        s \in {"A"}, n \in NodeLists, e \in EdgeMaps}
    \cup {ABCRequest}

InitialStates == {EmptyDoc, [_next_node |-> "A"]}

GraphIds == 1..MaxGraphs

\* An id that create_graph never issued.
UnknownGraphId == 0

RunIds == 1..MaxRuns

Init ==
    /\ graphs = << >>
    /\ runs = << >>
    /\ calls = << >>
    /\ last = [op |-> "init", raised |-> "", msg |-> "", value |-> 0]

Next ==
    \/ \E req \in Requests, graph_id \in GraphIds : CreateGraph(req, graph_id)
    \/ \E graph_id \in GraphIds, initial_state \in InitialStates,
          max_steps \in 1..MaxSteps, run_id \in RunIds :
          RunGraph(graph_id, initial_state, max_steps, run_id)
    \/ \E run_id \in RunIds : RunGraph(UnknownGraphId, EmptyDoc, 1, run_id)
    \/ \E run_id \in DOMAIN calls : LoopExhausted(run_id)
    \/ \E run_id \in DOMAIN calls : LoopBreak(run_id)
    \/ \E run_id \in DOMAIN calls : StepRaise(run_id)
    \/ \E run_id \in DOMAIN calls : StepOk(run_id)
    \/ \E run_id \in DOMAIN calls : WriteState(run_id)
    \/ \E run_id \in DOMAIN calls : WriteNode(run_id)
    \/ \E run_id \in DOMAIN calls : WriteLog(run_id)
    \/ \E run_id \in DOMAIN calls : Complete(run_id)
    \/ \E run_id \in DOMAIN calls : FailStatus(run_id)
    \/ \E run_id \in DOMAIN calls : FailError(run_id)
    \/ \E run_id \in RunIds : GetRunState(run_id)
    \/ ReadField

Spec == Init /\ [][Next]_vars

(***************************************************************************)
(* Properties of run_graph, checked under Spec.                            *)
(***************************************************************************)
Ended(c) == c.pc = "done"

WithoutKey(doc) == [k \in DOMAIN doc \ {NextKey} |-> doc[k]]

DenseIndex(log) == \A i \in 1..Len(log) : log[i].step_index = i - 1

\* C1: a run whose last executed node resolved to no next node (no tool
\* failed) ends completed, with current_node_id None, and returns; this
\* includes the node executed as the max_steps-th step.
C1_TerminalNodeCompletes ==
    \A run_id \in DOMAIN calls :
       LET c == calls[run_id]
           r == runs[run_id]
       IN (Ended(c) /\ Len(c.log) >= 1 /\ c.current_node_id = NoneVal)
             => /\ r.status = "completed"
                /\ r.current_node_id = NoneVal
                /\ c.result = "returned"

\* A single-node graph whose tool always sets the control key to that node.
SelfLoopGraph(g) ==
    /\ g.start_node_id = "A"
    /\ DOMAIN g.nodes = {"A"}
    /\ g.nodes["A"] = "goto_A"

\* C2: on a single-node graph whose tool always sets the control key to
\* that node, run_graph fails exactly after max_steps steps: the stored log
\* then has the steps 0..max_steps-1, the run never fails or ends earlier,
\* and no step of index >= max_steps is executed.
C2_SelfLoopFailsAtMaxSteps ==
    \A run_id \in DOMAIN calls :
       LET c == calls[run_id]
           r == runs[run_id]
       IN SelfLoopGraph(c.graph)
             => /\ Len(c.log) <= c.max_steps
                /\ DenseIndex(c.log)
                /\ c.pc # "complete"
                /\ c.result # "returned"
                /\ r.status # "completed"
                /\ (c.pc \in {"except", "except_error", "done"}
                       => Len(c.log) = c.max_steps)
                /\ (r.status = "failed"
                       => /\ Len(r.log) = c.max_steps
                          /\ DenseIndex(r.log))
                /\ (Ended(c)
                       => /\ c.result = "raised"
                          /\ r.status = "failed"
                          /\ r.error # NoneVal)

C2_Witness ==
    \E run_id \in DOMAIN calls :
       /\ SelfLoopGraph(calls[run_id].graph)
       /\ Ended(calls[run_id])
       /\ calls[run_id].max_steps = MaxSteps
       /\ runs[run_id].status = "failed"
       /\ Len(runs[run_id].log) = MaxSteps

\* The node the run went to after the step log[i].
NodeAfter(c, i) ==
    IF i < Len(c.log) THEN c.log[i + 1].node_id ELSE c.current_node_id

\* The node the step's output state and the static edges name.
NamedNext(graph, step) ==
    IF NextKey \in DOMAIN step.output_state
    THEN step.output_state[NextKey]
    ELSE IF step.node_id \in DOMAIN graph.edges
         THEN graph.edges[step.node_id]
         ELSE NoneVal

ABCGraph(g) ==
    /\ g.start_node_id = "A"
    /\ g.nodes = [A |-> "inc", B |-> "stop", C |-> "inc"]
    /\ g.edges = [A |-> "B", B |-> "C"]

NodesOf(log) == [i \in 1..Len(log) |-> log[i].node_id]

\* C3: after every tool invocation the next node is the value of the control
\* key when the key is in the working state (whatever the value and the
\* static edge), else the static edge of the node (None without one).  On
\* A -> B -> C where B's tool sets the key to None (initial state without the
\* key, a budget of at least two steps) the run executes A and B only and
\* ends with current_node_id None.
C3_NextNodeResolution ==
    \A run_id \in DOMAIN calls :
       LET c == calls[run_id]
           r == runs[run_id]
       IN /\ \A i \in 1..Len(c.log) :
                NodeAfter(c, i) = NamedNext(c.graph, c.log[i])
          /\ (ABCGraph(c.graph) /\ NextKey \notin DOMAIN c.initial_state)
                => /\ \A i \in 1..Len(c.log) : c.log[i].node_id # "C"
                   /\ (Ended(c) /\ c.max_steps >= 2)
                         => /\ NodesOf(c.log) = <<"A", "B">>
                            /\ NodesOf(r.log) = <<"A", "B">>
                            /\ c.current_node_id = NoneVal
                            /\ r.current_node_id = NoneVal

C3_Witness ==
    \E run_id \in DOMAIN calls :
       /\ ABCGraph(calls[run_id].graph)
       /\ NextKey \notin DOMAIN calls[run_id].initial_state
       /\ Ended(calls[run_id])
       /\ calls[run_id].max_steps = 3
       /\ runs[run_id].status = "completed"
       /\ NodesOf(runs[run_id].log) = <<"A", "B">>

\* The record r shows the run after its first Len(r.log) steps.
CommittedStep(r, c) ==
    LET k == Len(r.log)
    IN /\ k <= Len(c.log)
       /\ r.log = SubSeq(c.log, 1, k)
       /\ r.state = IF k = 0 THEN c.initial_state
                    ELSE WithoutKey(c.log[k].output_state)
       /\ r.current_node_id = IF k = 0 THEN c.graph.start_node_id
                              ELSE NamedNext(c.graph, c.log[k])

\* C4: whenever get_run_state, called at any moment of a run, returns a
\* response with status running, the response has a current_node_id that is
\* not None, and its state, its current_node_id and its log come from the
\* same committed step.
C4_RunningRecordConsistent ==
    (Responded /\ last.response.status = "running")
       => /\ last.response.current_node_id # NoneVal
          /\ CommittedStep(last.response, calls[last.value])

\* The step at the current node fails: the node is unknown to the graph, its
\* tool is not registered, or the tool raises.
FailsAtNode(c) ==
    /\ c.current_node_id # NoneVal
    /\ \/ c.current_node_id \notin DOMAIN c.graph.nodes
       \/ c.graph.nodes[c.current_node_id] \notin Registered
       \/ ToolFn(c.graph.nodes[c.current_node_id], c.state).ret = "raise"

\* C5: when the step of index k fails (unknown node, unregistered tool or a
\* raising tool), run_graph raises, and the stored record is failed with an
\* error, the log of the k steps before, the working state after step k-1
\* (the initial state for k = 0) and the failing node as current_node_id.
C5_FailedStepRecord ==
    \A run_id \in DOMAIN calls :
       LET c == calls[run_id]
           k == Len(c.log)
       IN (Ended(c) /\ FailsAtNode(c) /\ k < c.max_steps)
             => /\ c.result = "raised"
                /\ run_id \in DOMAIN runs
                /\ runs[run_id].status = "failed"
                /\ runs[run_id].error # NoneVal
                /\ Len(runs[run_id].log) = k
                /\ DenseIndex(runs[run_id].log)
                /\ runs[run_id].log = c.log
                /\ runs[run_id].state =
                      IF k = 0 THEN c.initial_state
                      ELSE WithoutKey(c.log[k].output_state)
                /\ runs[run_id].current_node_id = c.current_node_id

\* C9: run_graph with a graph id that is not in the graph store raises
\* KeyError and changes neither store; no invocation starts, so no tool runs,
\* and no stored record names a graph that is not in the store.
C9_UnknownGraphNotFound ==
    [][\A graph_id \in GraphIds \cup {UnknownGraphId},
          initial_state \in InitialStates, max_steps \in 1..MaxSteps,
          run_id \in RunIds :
          (/\ graph_id \notin DOMAIN graphs
           /\ RunGraph(graph_id, initial_state, max_steps, run_id))
             => /\ graphs' = graphs
                /\ runs' = runs
                /\ calls' = calls
                /\ last'.op = "run_graph"
                /\ last'.raised = "KeyError"
                /\ \A r \in DOMAIN runs' : runs'[r].graph_id \in DOMAIN graphs'
      ]_vars

C9_Witness ==
    /\ last.op = "run_graph"
    /\ last.raised = "KeyError"
    /\ DOMAIN graphs # {}

(***************************************************************************)
(* The specification SpecStore: graph definitions of every shape, valid    *)
(* and invalid, over two node ids, and runs with a budget of StoreSteps.   *)
(***************************************************************************)
StoreMaxGraphs == 2

StoreSteps == 2

StoreGraphIds == 1..StoreMaxGraphs

StoreNodeLists ==
    {<<NodeDefinition("A", "inc")>>,
     <<NodeDefinition("B", "ghost"), NodeDefinition("A", "inc")>>,
     <<NodeDefinition("A", "inc"), NodeDefinition("A", "ghost")>>}

StoreEdgeMaps ==
    {EmptyDoc, [Z |-> "A"]} \cup {[A |-> x] : x \in {NoneVal, "A", "B", "Z"}}

StoreRequests ==
    {GraphCreateRequest("g", s, n, e) :
        s \in {"A", "Z"}, n \in StoreNodeLists, e \in StoreEdgeMaps}

NextStore ==
    \/ \E req \in StoreRequests, graph_id \in StoreGraphIds :
          CreateGraph(req, graph_id)
    \/ \E graph_id \in StoreGraphIds, run_id \in RunIds :
          RunGraph(graph_id, EmptyDoc, StoreSteps, run_id)
    \/ \E run_id \in RunIds : RunGraph(UnknownGraphId, EmptyDoc, 1, run_id)
    \/ \E run_id \in DOMAIN calls : LoopExhausted(run_id)
    \/ \E run_id \in DOMAIN calls : LoopBreak(run_id)
    \/ \E run_id \in DOMAIN calls : StepRaise(run_id)
    \/ \E run_id \in DOMAIN calls : StepOk(run_id)
    \/ \E run_id \in DOMAIN calls : WriteState(run_id)
    \/ \E run_id \in DOMAIN calls : WriteNode(run_id)
    \/ \E run_id \in DOMAIN calls : WriteLog(run_id)
    \/ \E run_id \in DOMAIN calls : Complete(run_id)
    \/ \E run_id \in DOMAIN calls : FailStatus(run_id)
    \/ \E run_id \in DOMAIN calls : FailError(run_id)
    \/ \E run_id \in RunIds : GetRunState(run_id)
    \/ ReadField

SpecStore == Init /\ [][NextStore]_vars

\* The definition breaks a rule of create_graph.
Violates(req) ==
    LET ids == {req.nodes[i].id : i \in 1..Len(req.nodes)}
    IN \/ req.start_node_id \notin ids
       \/ \E src \in DOMAIN req.edges : src \notin ids
       \/ \E src \in DOMAIN req.edges :
             req.edges[src] # NoneVal /\ req.edges[src] \notin ids

\* C6: create_graph raises ValueError and leaves the graph store as it was
\* whenever the start node, an edge source or an edge target that is not None
\* is no node id; otherwise it stores the graph under an id that was not in
\* the store, and keeps the graphs already stored.
C6_CreateValidates ==
    [][last'.op = "create_graph"
          => \A req \in StoreRequests :
                IF Violates(req)
                THEN CreateGraph(req, 1)
                        => /\ graphs' = graphs
                           /\ last'.raised = "ValueError"
                ELSE \A graph_id \in StoreGraphIds :
                        CreateGraph(req, graph_id)
                           => /\ graph_id \notin DOMAIN graphs
                              /\ DOMAIN graphs' = DOMAIN graphs \cup {graph_id}
                              /\ \A g \in DOMAIN graphs : graphs'[g] = graphs[g]
                              /\ last'.raised = ""
                              /\ last'.value = graph_id
      ]_vars

C6_Witness ==
    /\ last.op = "create_graph"
    /\ last.raised = "ValueError"
    /\ last.msg = EdgeTargetMsg("Z")
    /\ Cardinality(DOMAIN graphs) = 1

UniqueIds(req) ==
    \A i, j \in 1..Len(req.nodes) : req.nodes[i].id = req.nodes[j].id => i = j

\* C8: for a valid definition with unique node ids, the graph stored under
\* the id create_graph returns has the name, the start node and the edges of
\* the definition, and maps each node id of the list to its tool name.
C8_CreateThenLookup ==
    [][(last'.op = "create_graph" /\ last'.raised = "")
          => \A req \in StoreRequests, graph_id \in StoreGraphIds :
                (~Violates(req) /\ UniqueIds(req) /\ CreateGraph(req, graph_id))
                   => /\ last'.value \in DOMAIN graphs'
                      /\ LET g == graphs'[last'.value]
                         IN /\ g.name = req.name
                            /\ g.start_node_id = req.start_node_id
                            /\ DOMAIN g.nodes =
                                  {req.nodes[i].id : i \in 1..Len(req.nodes)}
                            /\ \A i \in 1..Len(req.nodes) :
                                  g.nodes[req.nodes[i].id] = req.nodes[i].tool_name
                            /\ g.edges = req.edges
      ]_vars

C8_Witness ==
    /\ last.op = "create_graph"
    /\ last.raised = ""
    /\ last.value \in DOMAIN graphs
    /\ graphs[last.value].nodes = [A |-> "inc", B |-> "ghost"]
    /\ graphs[last.value].edges = [A |-> "B"]
    /\ graphs[last.value].start_node_id = "A"

(***************************************************************************)
(* The specification SpecReview: the code review graph that               *)
(* register_code_review_tools_and_graph creates, run on small sources.     *)
(***************************************************************************)
MaxLines == 2

MaxReviewSteps == 7

CodeReviewNodes ==
    <<NodeDefinition("extract_functions", "extract_functions"),
      NodeDefinition("check_complexity", "check_complexity"),
      NodeDefinition("detect_basic_issues", "detect_basic_issues"),
      NodeDefinition("suggest_improvements", "suggest_improvements"),
      NodeDefinition("quality_gate", "quality_gate")>>

CodeReviewEdges ==
    [extract_functions |-> "check_complexity",
     check_complexity |-> "detect_basic_issues",
     detect_basic_issues |-> "suggest_improvements",
     suggest_improvements |-> "quality_gate",
     quality_gate |-> NoneVal]

CodeReviewRequest ==
    GraphCreateRequest("code_review", "extract_functions", CodeReviewNodes,
                       CodeReviewEdges)

\* The same definition with an edge to a node that does not exist.
BrokenReviewRequest ==
    GraphCreateRequest("code_review", "extract_functions", CodeReviewNodes,
                       [CodeReviewEdges EXCEPT !["quality_gate"] = "done"])

\* "def f(x):" after a space and a no-break space (U+00A0),
\* "def a_b_c_d_e_f():", " print(1)", "# TODO", a tab and "x".
ReviewLines ==
    {<<" ", " ", "d", "e", "f", " ", "f", "(", "x", ")", ":">>,
     <<"d", "e", "f", " ", "a", "_", "b", "_", "c", "_", "d", "_", "e", "_", "f",
       "(", ")", ":">>,
     <<" ", "p", "r", "i", "n", "t", "(", "1", ")">>,
     <<"#", " ", "T", "O", "D", "O">>,
     <<"\t", "x">>}

RECURSIVE SeqsUpTo(_, _)
SeqsUpTo(S, n) ==
    IF n = 0 THEN {<< >>}
    ELSE LET shorter == SeqsUpTo(S, n - 1)
         IN shorter \cup {Append(q, x) : q \in shorter, x \in S}

ReviewCodes == SeqsUpTo(ReviewLines, MaxLines)

ReviewThresholds == {700, 850, 1000}

ReviewStates ==
    {[code |-> code] : code \in ReviewCodes}
    \cup {[code |-> code, threshold |-> t] :
             code \in ReviewCodes, t \in ReviewThresholds}
    \cup {[code |-> << >>, _next_node |-> "report"]}

NextReview ==
    \/ \E req \in {CodeReviewRequest, BrokenReviewRequest}, graph_id \in GraphIds :
          CreateGraph(req, graph_id)
    \/ \E graph_id \in GraphIds, initial_state \in ReviewStates,
          max_steps \in 1..MaxReviewSteps, run_id \in RunIds :
          RunGraph(graph_id, initial_state, max_steps, run_id)
    \/ \E run_id \in RunIds : RunGraph(UnknownGraphId, EmptyDoc, 1, run_id)
    \/ \E run_id \in DOMAIN calls : LoopExhausted(run_id)
    \/ \E run_id \in DOMAIN calls : LoopBreak(run_id)
    \/ \E run_id \in DOMAIN calls : StepRaise(run_id)
    \/ \E run_id \in DOMAIN calls : StepOk(run_id)
    \/ \E run_id \in DOMAIN calls : WriteState(run_id)
    \/ \E run_id \in DOMAIN calls : WriteNode(run_id)
    \/ \E run_id \in DOMAIN calls : WriteLog(run_id)
    \/ \E run_id \in DOMAIN calls : Complete(run_id)
    \/ \E run_id \in DOMAIN calls : FailStatus(run_id)
    \/ \E run_id \in DOMAIN calls : FailError(run_id)

SpecReview == Init /\ [][NextReview]_vars

ReviewGraph(g) ==
    /\ g.name = "code_review"
    /\ g.start_node_id = "extract_functions"
    /\ g.nodes = [n \in ReviewTools |-> n]
    /\ g.edges = CodeReviewEdges

\* C7: every run of the code review graph (initial state without the control
\* key, the largest step budget) ends with status completed after its loops
\* back from quality_gate to suggest_improvements.
C7_ReviewRunCompletes ==
    \A run_id \in DOMAIN calls :
       LET c == calls[run_id]
       IN (/\ ReviewGraph(c.graph)
           /\ NextKey \notin DOMAIN c.initial_state
           /\ c.max_steps = MaxReviewSteps
           /\ Ended(c))
             => /\ runs[run_id].status = "completed"
                /\ c.result = "returned"

(***************************************************************************)
(* The specification SpecMut: a client changes the snapshots of the log    *)
(* entries it got from get_run_state or from the result of run_graph.  The *)
(* entries of the response are the ExecutionStep objects of the stored     *)
(* log, so the change is seen wherever the same dict object is held.       *)
(***************************************************************************)
MutDoc(ref, doc, target, k, v) == IF ref = target THEN Put(doc, k, v) ELSE doc

MutLog(log, target, k, v) ==
    [i \in 1..Len(log) |->
        [log[i] EXCEPT
            !.input_state = MutDoc(log[i].input_ref, @, target, k, v),
            !.output_state = MutDoc(log[i].output_ref, @, target, k, v)]]

\* The call of get_run_state holds, once it has read r.log, the entries of
\* the stored log themselves: a change of a snapshot of such an entry is a
\* change in the response, while it is built and after it is returned.
MutLast(target, k, v) ==
    IF Reading /\ "log" \in DOMAIN last.response
    THEN [last EXCEPT !.response.log = MutLog(@, target, k, v)]
    ELSE last

\* entry = get_run_state(run_id).log[i]; entry.<field>[k] = v
Mutate(run_id, i, field, k, v) ==
    /\ run_id \in DOMAIN runs
    /\ i \in 1..Len(runs[run_id].log)
    /\ LET entry == runs[run_id].log[i]
           target == IF field = "input_state" THEN entry.input_ref
                     ELSE entry.output_ref
       IN /\ runs' = [r \in DOMAIN runs |->
                        [runs[r] EXCEPT
                            !.state = MutDoc(runs[r].state_ref, @, target, k, v),
                            !.log = MutLog(@, target, k, v)]]
          /\ calls' = [r \in DOMAIN calls |->
                         [calls[r] EXCEPT
                             !.state = MutDoc(calls[r].state_ref, @, target, k, v),
                             !.log = MutLog(@, target, k, v)]]
          /\ last' = MutLast(target, k, v)
    /\ UNCHANGED graphs

MutRequests ==
    {GraphCreateRequest("g", "A", <<NodeDefinition("A", t)>>, [A |-> "A"]) :
        t \in {"inc", "noop", "stop"}}
    \cup {GraphCreateRequest("g", "A", <<NodeDefinition("A", "boom")>>, EmptyDoc)}

SnapshotFields == {"input_state", "output_state"}

NextMut ==
    \/ \E req \in MutRequests, graph_id \in GraphIds : CreateGraph(req, graph_id)
    \/ \E graph_id \in GraphIds, max_steps \in 1..MaxSteps, run_id \in RunIds :
          RunGraph(graph_id, EmptyDoc, max_steps, run_id)
    \/ \E run_id \in RunIds : RunGraph(UnknownGraphId, EmptyDoc, 1, run_id)
    \/ \E run_id \in DOMAIN calls : LoopExhausted(run_id)
    \/ \E run_id \in DOMAIN calls : LoopBreak(run_id)
    \/ \E run_id \in DOMAIN calls : StepRaise(run_id)
    \/ \E run_id \in DOMAIN calls : StepOk(run_id)
    \/ \E run_id \in DOMAIN calls : WriteState(run_id)
    \/ \E run_id \in DOMAIN calls : WriteNode(run_id)
    \/ \E run_id \in DOMAIN calls : WriteLog(run_id)
    \/ \E run_id \in DOMAIN calls : Complete(run_id)
    \/ \E run_id \in DOMAIN calls : FailStatus(run_id)
    \/ \E run_id \in DOMAIN calls : FailError(run_id)
    \/ \E run_id \in RunIds : GetRunState(run_id)
    \/ ReadField
    \/ \E run_id \in RunIds, i \in 1..MaxSteps, field \in SnapshotFields :
          Mutate(run_id, i, field, NextKey, "Z")

SpecMut == Init /\ [][NextMut]_vars

\* The nodes a run of the graph executes from node on with the given state
\* and budget, by the rules of the loop alone.
RECURSIVE NodesRun(_, _, _, _)
NodesRun(graph, state, node, budget) ==
    IF \/ budget = 0
       \/ node = NoneVal
       \/ node \notin DOMAIN graph.nodes
       \/ graph.nodes[node] \notin Registered
    THEN << >>
    ELSE LET out == ToolFn(graph.nodes[node], state)
             after == IF out.ret = "none" THEN state ELSE out.doc
         IN IF out.ret = "raise" THEN << >>
            ELSE <<node>> \o NodesRun(graph, WithoutKey(after),
                                      IF NextKey \in DOMAIN after
                                      THEN after[NextKey]
                                      ELSE Get(graph.edges, node, NoneVal),
                                      budget - 1)

IsPrefix(p, q) == Len(p) <= Len(q) /\ p = SubSeq(q, 1, Len(p))

\* C10: when a client changes a snapshot of a log entry it obtained, at any
\* time of the run, the working state of no run and the state of no stored
\* record changes, and every run executes the nodes it executes without any
\* such change.
C10_SnapshotsIndependent ==
    [][/\ \A run_id \in RunIds, i \in 1..MaxSteps, field \in SnapshotFields :
             Mutate(run_id, i, field, NextKey, "Z")
                => /\ \A r \in DOMAIN calls :
                         /\ calls'[r].state = calls[r].state
                         /\ calls'[r].current_node_id = calls[r].current_node_id
                   /\ \A r \in DOMAIN runs : runs'[r].state = runs[r].state
       /\ \A r \in DOMAIN calls' :
             /\ IsPrefix(NodesOf(calls'[r].log),
                         NodesRun(calls'[r].graph, calls'[r].initial_state,
                                  calls'[r].graph.start_node_id,
                                  calls'[r].max_steps))
             /\ Ended(calls'[r])
                   => NodesOf(calls'[r].log) =
                         NodesRun(calls'[r].graph, calls'[r].initial_state,
                                  calls'[r].graph.start_node_id,
                                  calls'[r].max_steps)
      ]_vars

\* A snapshot of the first step was changed during the run, which went on to
\* its third step.
C10_Witness ==
    \E r \in DOMAIN calls :
       /\ Ended(calls[r])
       /\ Len(runs[r].log) = 3
       /\ calls[r].graph.nodes["A"] = "noop"
       /\ runs[r].log[1].output_state = [_next_node |-> "Z"]
       /\ runs[r].log[2].input_state = EmptyDoc
       /\ runs[r].state = EmptyDoc

(***************************************************************************)
(* Further properties of the runs of Spec.                                 *)
(***************************************************************************)
\* C11: the control key is consumed by the step that resolves it: after a
\* step the working state does not hold the key, so no input_state of a step
\* of index >= 1 holds it, no state written to the stored record after a
\* step holds it, and the state a run returns does not hold it; the node a
\* step goes to is named by that step's own output alone.
C11_ControlKeyConsumed ==
    \A run_id \in DOMAIN calls :
       LET c == calls[run_id]
           r == runs[run_id]
       IN /\ Len(c.log) >= 1 => NextKey \notin DOMAIN c.state
          /\ \A i \in 2..Len(c.log) : NextKey \notin DOMAIN c.log[i].input_state
          /\ \A i \in 2..Len(r.log) : NextKey \notin DOMAIN r.log[i].input_state
          /\ r.state_ref # Ref("record", run_id, 0)
                => NextKey \notin DOMAIN r.state
          /\ c.result = "returned" => NextKey \notin DOMAIN c.state
          /\ \A i \in 1..Len(c.log) :
                NextKey \notin DOMAIN c.log[i].output_state
                   => NodeAfter(c, i) = Get(c.graph.edges, c.log[i].node_id, NoneVal)

\* A run that started with the key in its initial state used it in step 0
\* and went on by the static edges.
C11_Witness ==
    \E run_id \in DOMAIN calls :
       LET c == calls[run_id]
       IN /\ c.result = "returned"
          /\ NextKey \in DOMAIN c.initial_state
          /\ Len(c.log) = 2
          /\ NextKey \in DOMAIN c.log[1].output_state
          /\ NextKey \notin DOMAIN c.log[2].input_state
          /\ NextKey \notin DOMAIN runs[run_id].state

RecordInvariants(r) ==
    /\ r.status \in {"running", "completed", "failed"}
    /\ r.error # NoneVal => r.status = "failed"
    /\ r.status = "completed" => r.current_node_id = NoneVal

StatusStep(old, new) ==
    old.status # new.status
       => old.status = "running" /\ new.status \in {"completed", "failed"}

\* C12: a record is created running, changes status at most once,
\* and once it is completed or failed none of its fields changes again;
\* error is set only on a failed record and a completed record has no
\* current node.
C12_TerminalRecordFrozen ==
    [][/\ DOMAIN runs \subseteq DOMAIN runs'
       /\ \A r \in DOMAIN runs' \ DOMAIN runs : runs'[r].status = "running"
       /\ \A r \in DOMAIN runs :
             /\ StatusStep(runs[r], runs'[r])
             /\ runs[r].status \in {"completed", "failed"} => runs'[r] = runs[r]
       /\ \A r \in DOMAIN runs' : RecordInvariants(runs'[r])
      ]_vars

\* The invocation has not yet written to the stored record: it is in its
\* first iteration, or its first step has run and line 158 has not.
NoWriteYet(c) ==
    \/ Len(c.log) = 0 /\ c.pc \in {"loop", "except"}
    \/ Len(c.log) = 1 /\ c.pc = "write_state"

\* As long as the invocation has not written to the record, what a call of
\* get_run_state has read of the record is what the record was made with.
ShowsInitialRecord ==
    (Reading /\ NoWriteYet(calls[last.value]))
       => LET c == calls[last.value]
              initial == [status |-> "running",
                          current_node_id |-> c.graph.start_node_id,
                          state |-> c.initial_state,
                          log |-> << >>,
                          error |-> NoneVal]
          IN \A i \in 1..last.reads :
                last.response[ReadOrder[i]] = initial[ReadOrder[i]]

\* C13: the record of a run is in the run store from before its first tool
\* invocation on, so get_run_state of the run succeeds at every moment of the
\* invocation; until the first step is written to the record, the record
\* shows status running, the start node, an empty log and the caller's
\* initial state.
C13_RecordBeforeFirstStep ==
    [][/\ \A run_id \in RunIds :
             (run_id \in DOMAIN calls /\ GetRunState(run_id))
                => last'.raised = "" /\ last'.value = run_id
       /\ \A run_id \in DOMAIN calls' :
             /\ run_id \in DOMAIN runs'
             /\ NoWriteYet(calls'[run_id])
                   => /\ runs'[run_id].status = "running"
                      /\ runs'[run_id].current_node_id =
                            calls'[run_id].graph.start_node_id
                      /\ runs'[run_id].log = << >>
                      /\ runs'[run_id].state = calls'[run_id].initial_state
                      /\ runs'[run_id].error = NoneVal
       /\ ShowsInitialRecord'
      ]_vars

\* The first tool has run, nothing is written yet, and get_run_state has
\* returned the record.
C13_Witness ==
    \E run_id \in DOMAIN calls :
       /\ calls[run_id].pc = "write_state"
       /\ Len(calls[run_id].log) = 1
       /\ NextKey \in DOMAIN calls[run_id].initial_state
       /\ runs[run_id].state = calls[run_id].initial_state
       /\ runs[run_id].log = << >>
       /\ Responded
       /\ last.value = run_id
       /\ last.response.state = calls[run_id].initial_state
       /\ last.response.log = << >>

(***************************************************************************)
(* The specification SpecFair: Spec, with every invocation of run_graph    *)
(* going on to its next step.  run_graph is synchronous code without a     *)
(* wait: the thread that runs it executes its next statement.              *)
(***************************************************************************)
RunStep(run_id) ==
    /\ run_id \in DOMAIN calls
    /\ \/ LoopExhausted(run_id)
       \/ LoopBreak(run_id)
       \/ StepRaise(run_id)
       \/ StepOk(run_id)
       \/ WriteState(run_id)
       \/ WriteNode(run_id)
       \/ WriteLog(run_id)
       \/ Complete(run_id)
       \/ FailStatus(run_id)
       \/ FailError(run_id)

SpecFair == Init /\ [][Next]_vars /\ \A run_id \in RunIds : WF_vars(RunStep(run_id))

\* The iterations of the loop the invocation has begun; a tool is invoked
\* at most once in each of them.
Iterations(c) == c.next_i

\* The invocation was left by an exception of a tool that the handler of
\* line 170 does not catch: that tool invocation neither returned nor failed
\* with an Exception.
Escaped(c) ==
    /\ Ended(c)
    /\ c.result = "raised"
    /\ c.exc # MaxStepsMsg(c.max_steps)
    /\ ~Caught(c)

\* C14: every run whose tool invocations return (or raise an Exception) ends
\* with status completed or failed, and at no time has a run begun more than
\* max_steps iterations (so invoked more than max_steps tools) or logged
\* more than max_steps steps.
C14_RunsTerminateWithinBudget ==
    /\ [](\A run_id \in DOMAIN calls :
             /\ Iterations(calls[run_id]) <= calls[run_id].max_steps
             /\ Len(calls[run_id].log) <= Iterations(calls[run_id])
             /\ Len(runs[run_id].log) <= Len(calls[run_id].log))
    /\ \A run_id \in RunIds :
          (run_id \in DOMAIN runs)
             ~> (/\ run_id \in DOMAIN runs
                 /\ calls[run_id].pc = "done"
                 /\ ~Escaped(calls[run_id])
                       => runs[run_id].status \in {"completed", "failed"})

\* A run over a static self-loop used its whole budget and is failed.
C14_Witness ==
    \E run_id \in DOMAIN calls :
       LET c == calls[run_id]
       IN /\ c.pc = "done"
          /\ c.graph.nodes = [A |-> "inc"]
          /\ c.graph.edges = [A |-> "A"]
          /\ c.max_steps = MaxSteps
          /\ Len(runs[run_id].log) = MaxSteps
          /\ runs[run_id].status = "failed"

\* Every entry of the log is at its index, at a node of the graph, with the
\* tool the graph binds to that node.
LogOfGraph(log, graph) ==
    \A i \in 1..Len(log) :
       /\ log[i].step_index = i - 1
       /\ log[i].node_id \in DOMAIN graph.nodes
       /\ log[i].tool_name = graph.nodes[log[i].node_id]

\* C15: the stored log of a run only grows, by one entry for each step that
\* is written to the record (line 160), the earlier log being a prefix of the
\* later one; every entry of a log, stored or local, is at its index, at a
\* node of the run's graph, with the tool bound to that node.
C15_LogAppendOnly ==
    [][/\ \A r \in DOMAIN runs :
             /\ r \in DOMAIN runs'
             /\ IsPrefix(runs[r].log, runs'[r].log)
             /\ Len(runs'[r].log) <= Len(runs[r].log) + 1
             /\ WriteLog(r)
                   => /\ Len(runs'[r].log) = Len(runs[r].log) + 1
                      /\ runs'[r].log = calls[r].log
       /\ \A r \in DOMAIN runs' :
             /\ LogOfGraph(runs'[r].log, calls'[r].graph)
             /\ LogOfGraph(calls'[r].log, calls'[r].graph)
             /\ runs'[r].graph_id \in DOMAIN graphs'
             /\ graphs'[runs'[r].graph_id] = calls'[r].graph
      ]_vars

\* The third step of a run is about to be appended to a stored log of two.
C15_Witness ==
    \E r \in DOMAIN runs :
       /\ calls[r].pc = "write_log"
       /\ Len(calls[r].log) = 3
       /\ Len(runs[r].log) = 2
       /\ runs[r].log = SubSeq(calls[r].log, 1, 2)

\* What the tool of a logged step gives on the step's input.
OutcomeOf(step) == ToolFn(step.tool_name, step.input_state)

\* The working state after the last logged step, once the step is complete.
StateAfterLast(c) == WithoutKey(c.log[Len(c.log)].output_state)

\* C16: a step whose tool returns None leaves the working state as it was
\* before the invocation, whatever the tool did to its argument: the logged
\* output_state is the input_state and the next node is resolved from it
\* (the control key when it was present, else the static edge).  A step
\* whose tool returns a document makes that document the working state.
C16_NoneKeepsState ==
    \A run_id \in DOMAIN calls :
       LET c == calls[run_id]
       IN /\ \A i \in 1..Len(c.log) :
                LET step == c.log[i]
                IN /\ OutcomeOf(step).ret = "none"
                         => /\ step.output_state = step.input_state
                            /\ NodeAfter(c, i) =
                                  IF NextKey \in DOMAIN step.input_state
                                  THEN step.input_state[NextKey]
                                  ELSE Get(c.graph.edges, step.node_id, NoneVal)
                   /\ OutcomeOf(step).ret = "doc"
                         => step.output_state = OutcomeOf(step).doc
                   /\ OutcomeOf(step).ret # "raise"
          /\ Len(c.log) >= 1 => c.state = StateAfterLast(c)

\* A tool that changes its argument and returns None ran on a state holding
\* the control key: the state was kept, the key named the next node, and
\* the step after it followed the static edge.
C16_Witness ==
    \E run_id \in DOMAIN calls :
       LET c == calls[run_id]
       IN /\ c.graph.nodes["A"] = "noop"
          /\ c.graph.edges = [A |-> "B"]
          /\ Len(c.log) = 3
          /\ c.log[1].input_state = [_next_node |-> "A"]
          /\ c.log[1].output_state = [_next_node |-> "A"]
          /\ noop_tool(c.log[1].input_state).doc # c.log[1].input_state
          /\ NodesOf(c.log) = <<"A", "A", "B">>

(***************************************************************************)
(* Further properties of the graph store, under SpecStore.                 *)
(***************************************************************************)
\* C17: every stored graph has a start node that is one of its nodes, and
\* edges whose sources and whose targets other than None are its nodes.
C17_StoredGraphsValid ==
    \A g \in DOMAIN graphs :
       /\ graphs[g].start_node_id \in DOMAIN graphs[g].nodes
       /\ \A src \in DOMAIN graphs[g].edges :
             /\ src \in DOMAIN graphs[g].nodes
             /\ graphs[g].edges[src] # NoneVal
                   => graphs[g].edges[src] \in DOMAIN graphs[g].nodes

\* Two graphs are stored, one with an edge to another node, and a
\* definition with an unknown start node was refused.
C17_Witness ==
    /\ Cardinality(DOMAIN graphs) = 2
    /\ \E g \in DOMAIN graphs : graphs[g].edges = [A |-> "B"]
    /\ last.op = "create_graph"
    /\ last.msg = StartMsg

\* C18: a stored graph is never changed or removed; the graph store changes
\* only by a create_graph that succeeds, which adds the one entry of the id
\* it returns; run_graph and get_run_state leave the store as it is.
C18_GraphsWriteOnce ==
    [][/\ \A g \in DOMAIN graphs : g \in DOMAIN graphs' /\ graphs'[g] = graphs[g]
       /\ graphs' # graphs
             => /\ last'.op = "create_graph"
                /\ last'.raised = ""
                /\ last'.value \notin DOMAIN graphs
                /\ DOMAIN graphs' = DOMAIN graphs \cup {last'.value}
                /\ runs' = runs
                /\ calls' = calls
       /\ (runs' # runs \/ calls' # calls) => graphs' = graphs
       /\ last'.op \in {"run_graph", "get_run_state"} /\ last' # last
             => graphs' = graphs
      ]_vars

\* A run of the first graph has ended, failed, and a second graph was
\* created; both are stored.
C18_Witness ==
    /\ DOMAIN graphs = {1, 2}
    /\ graphs[1] # Graph(1, [name |-> "g", start_node_id |-> "A",
                              nodes |-> <<NodeDefinition("A", "inc")>>,
                              edges |-> EmptyDoc])
    /\ \E r \in DOMAIN runs :
          /\ runs[r].graph_id = 1
          /\ runs[r].status = "failed"
          /\ calls[r].pc = "done"
          /\ calls[r].graph = graphs[1]
    /\ last.op = "create_graph"
    /\ last.value = 2

(***************************************************************************)
(* The specification SpecPair: PairRuns invocations of run_graph on one    *)
(* graph, in worker threads, their statements interleaved in any order.    *)
(***************************************************************************)
PairRuns == 2

PairRunIds == 1..PairRuns

PairRequests ==
    {GraphCreateRequest("g", "A", <<NodeDefinition("A", "inc")>>, [A |-> "A"]),
     GraphCreateRequest("g", "A", <<NodeDefinition("A", "inc"),
                                     NodeDefinition("B", "stop")>>, [A |-> "B"]),
     GraphCreateRequest("g", "A", <<NodeDefinition("A", "noop"),
                                     NodeDefinition("B", "boom")>>, [A |-> "B"]),
     GraphCreateRequest("g", "A", <<NodeDefinition("A", "inc"),
                                     NodeDefinition("B", "exit")>>, [A |-> "B"])}

NextPair ==
    \/ \E req \in PairRequests, graph_id \in GraphIds : CreateGraph(req, graph_id)
    \/ \E graph_id \in GraphIds, initial_state \in InitialStates,
          max_steps \in 1..MaxSteps, run_id \in PairRunIds :
          RunGraph(graph_id, initial_state, max_steps, run_id)
    \/ \E run_id \in DOMAIN calls : LoopExhausted(run_id)
    \/ \E run_id \in DOMAIN calls : LoopBreak(run_id)
    \/ \E run_id \in DOMAIN calls : StepRaise(run_id)
    \/ \E run_id \in DOMAIN calls : StepOk(run_id)
    \/ \E run_id \in DOMAIN calls : WriteState(run_id)
    \/ \E run_id \in DOMAIN calls : WriteNode(run_id)
    \/ \E run_id \in DOMAIN calls : WriteLog(run_id)
    \/ \E run_id \in DOMAIN calls : Complete(run_id)
    \/ \E run_id \in DOMAIN calls : FailStatus(run_id)
    \/ \E run_id \in DOMAIN calls : FailError(run_id)

SpecPair == Init /\ [][NextPair]_vars

\* A logged step without the identities of its snapshots.
StepValue(step) ==
    [step_index |-> step.step_index,
     node_id |-> step.node_id,
     tool_name |-> step.tool_name,
     input_state |-> step.input_state,
     output_state |-> step.output_state]

StepValues(log) == [i \in 1..Len(log) |-> StepValue(log[i])]

Outcome(status, error, state, current_node_id, log) ==
    [status |-> status, error |-> error, state |-> state,
     current_node_id |-> current_node_id, log |-> log]

\* run_graph executed alone, from the iteration i on, as one computation:
\* what it leaves in the record and in its locals.
RECURSIVE RunAlone(_, _, _, _, _, _)
RunAlone(graph, state, node, i, max_steps, log) ==
    IF i >= max_steps
    THEN Outcome("failed", MaxStepsMsg(max_steps), state, node, log)
    ELSE IF node = NoneVal
    THEN Outcome("completed", NoneVal, state, node, log)
    ELSE IF node \notin DOMAIN graph.nodes
    THEN Outcome("failed", "'" \o node \o "'", state, node, log)
    ELSE IF graph.nodes[node] \notin Registered
    THEN Outcome("failed", NotRegisteredMsg(graph.nodes[node]), state, node, log)
    ELSE LET out == ToolFn(graph.nodes[node], state)
             after == IF out.ret = "none" THEN state ELSE out.doc
             step == [step_index |-> i, node_id |-> node,
                      tool_name |-> graph.nodes[node],
                      input_state |-> state, output_state |-> after]
         IN IF out.ret = "raise"
            THEN IF out.is_exception
                 THEN Outcome("failed", out.msg, state, node, log)
                 ELSE Outcome("running", NoneVal, state, node, log)
            ELSE RunAlone(graph,
                          [k \in DOMAIN after \ {NextKey} |-> after[k]],
                          IF NextKey \in DOMAIN after THEN after[NextKey]
                          ELSE IF node \in DOMAIN graph.edges
                               THEN graph.edges[node] ELSE NoneVal,
                          i + 1, max_steps, Append(log, step))

OutcomeOfRun(r, c) ==
    Outcome(r.status, r.error, r.state, r.current_node_id, StepValues(r.log))

\* C19: a statement of one run writes only that run's record and locals and
\* leaves those of every other run as they are; every run that has ended
\* left the status, error, state, current node and log, and returned the
\* state and log, that the same call leaves when it is executed alone.
C19_RunsIndependent ==
    [][/\ \A r \in DOMAIN runs :
             (runs'[r] # runs[r] \/ calls'[r] # calls[r])
                => \A o \in DOMAIN runs' \ {r} :
                      /\ o \in DOMAIN runs
                      /\ runs'[o] = runs[o]
                      /\ calls'[o] = calls[o]
       /\ \A r \in DOMAIN runs' \ DOMAIN runs :
             \A o \in DOMAIN runs : runs'[o] = runs[o] /\ calls'[o] = calls[o]
       /\ \A r \in DOMAIN calls' :
             LET c == calls'[r]
                 alone == RunAlone(c.graph, c.initial_state,
                                   c.graph.start_node_id, 0, c.max_steps, << >>)
             IN Ended(c)
                   => /\ OutcomeOfRun(runs'[r], c) = alone
                      /\ StepValues(c.log) = alone.log
                      /\ c.state = alone.state
                      /\ (c.result = "returned") = (alone.status = "completed")
      ]_vars

\* Two runs of one graph are in the middle of writing a step to their
\* records at the same time, the first in its second step and the second in
\* its first.
C19_Witness ==
    /\ DOMAIN calls = {1, 2}
    /\ calls[1].graph = calls[2].graph
    /\ calls[1].pc = "write_node"
    /\ calls[2].pc = "write_log"
    /\ Len(calls[1].log) = 2
    /\ Len(calls[2].log) = 1
    /\ Len(runs[1].log) = 1
    /\ runs[1].state # runs[2].state

\* The log is a trace of the graph from the initial state.
TraceOf(log, graph, initial_state) ==
    /\ Len(log) >= 1
          => /\ log[1].node_id = graph.start_node_id
             /\ log[1].input_state = initial_state
    /\ \A i \in 1..(Len(log) - 1) :
          /\ log[i + 1].input_state = WithoutKey(log[i].output_state)
          /\ log[i + 1].node_id =
                IF NextKey \in DOMAIN log[i].output_state
                THEN log[i].output_state[NextKey]
                ELSE graph.edges[log[i].node_id]

\* C20: the log of a run, local or stored, starts at the start node of the
\* graph with the caller's initial state as input; every further entry has
\* as input the output of the entry before it without the control key, and
\* is at the node that output names by the control key or, without the key,
\* at the static edge of the node before.
C20_LogIsTrace ==
    \A run_id \in DOMAIN calls :
       /\ TraceOf(calls[run_id].log, calls[run_id].graph,
                  calls[run_id].initial_state)
       /\ TraceOf(runs[run_id].log, calls[run_id].graph,
                  calls[run_id].initial_state)

\* On A -> B -> C with the control key in the initial state the stored log
\* is A (by the key), A (by the edge), B.
C20_Witness ==
    \E run_id \in DOMAIN calls :
       /\ ABCGraph(calls[run_id].graph)
       /\ calls[run_id].initial_state = [_next_node |-> "A"]
       /\ Ended(calls[run_id])
       /\ NodesOf(runs[run_id].log) = <<"A", "A", "B">>
       /\ runs[run_id].log[3].output_state[NextKey] = NoneVal

\* C21: when run_graph has returned, the stored record of the returned
\* run id is completed, without error and without current node, its state
\* is the returned final state and its log is the returned log, which has
\* at least one entry; a response of get_run_state with status completed is
\* that record.
C21_ReturnAgreesWithRecord ==
    \A run_id \in DOMAIN calls :
       LET c == calls[run_id]
       IN c.result = "returned"
             => /\ run_id \in DOMAIN runs
                /\ runs[run_id].id = run_id
                /\ runs[run_id].status = "completed"
                /\ runs[run_id].error = NoneVal
                /\ runs[run_id].current_node_id = NoneVal
                /\ runs[run_id].state = c.state
                /\ runs[run_id].log = c.log
                /\ Len(c.log) >= 1
                /\ GraphStateResponse(runs[run_id]).state = c.state
                /\ GraphStateResponse(runs[run_id]).log = c.log
                /\ GraphStateResponse(runs[run_id]).status = "completed"
                /\ (/\ Responded
                    /\ last.value = run_id
                    /\ last.response.status = "completed")
                      => /\ last.response.state = c.state
                         /\ last.response.log = c.log
                         /\ last.response.error = NoneVal
                         /\ last.response.current_node_id = NoneVal

\* A run of two steps that each changed the state has returned, and its
\* record was read.
C21_Witness ==
    \E run_id \in DOMAIN calls :
       /\ calls[run_id].result = "returned"
       /\ calls[run_id].state = [n |-> 2]
       /\ Len(calls[run_id].log) = 2
       /\ runs[run_id].state = [n |-> 2]
       /\ Responded
       /\ last.value = run_id
       /\ last.response.status = "completed"
       /\ last.response.state = [n |-> 2]

=============================================================================
